---- MODULE Spec2Model ----
(***************************************************************************)
(* A model of pyCocos: the REST client's request executor                  *)
(* (components/client.py, RestClient.api_request) and the Cocos facade     *)
(* (main.py): the authentication sequence run by the constructor, logout,  *)
(* the plain query operations and buy/sell order submission with their     *)
(* local validation.                                                       *)
(*                                                                         *)
(* One action is one api_request call together with the local code that    *)
(* runs after it up to the next api_request call (or up to the blocking    *)
(* input() of the second factor).  The remote server is the environment:   *)
(* every call draws the response(s) it receives from the responses the     *)
(* server can give for that endpoint.  The server always answers with a    *)
(* JSON document (spec 4.1), so simplejson.loads never fails.              *)
(*                                                                         *)
(* Python values keep their Python type: an Enum member is a record        *)
(* [class, name, value], a str is a TLA+ string, None is the record None.  *)
(***************************************************************************)
EXTENDS Integers, Sequences, FiniteSets, TLC

\* ------------------------------------------------------------------ bounds
\* public operations invoked on the facade after its construction
MaxOps == 2
\* largest amount of funds / stock the server reports
MaxFunds == 2

VARIABLES
    pc,              \* position of the facade: the next api_request call, "input", "idle" or "failed"
    topt,            \* TRUE iff a TOTP generator was configured (self.topt is not None)
    connected,       \* self.connected
    access_token,    \* self.access_token ("<unset>" until _auth assigns it)
    account_number,  \* self.account_number
    headers,         \* self.client.session.headers, the keys the facade touches
    orders,          \* self.orders
    messages,        \* self.client.messages, the audit log
    sent,            \* HTTP requests dispatched by the operation in progress (or the last one)
    api,             \* the last api_request call: statuses seen, requests dispatched, outcome
    op,              \* the public operation in progress (or the last one) and its outcome
    frame,           \* local variables of the operation in progress
    hist,            \* what the server answered during the authentication sequence
    nops             \* number of public operations invoked so far

vars == <<pc, topt, connected, access_token, account_number, headers, orders,
          messages, sent, api, op, frame, hist, nops>>

\* ------------------------------------------------------------ Python values
\* A Python object whose class matters is a record of its class, its member
\* name and its value: an Enum member, None, or a str that is compared with
\* an Enum member.
Member(e, n, v) == [class |-> e, name |-> n, value |-> v]

None == Member("NoneType", "None", "")

Str(s) == Member("str", "", s)

Settlement == { Member("Settlement", "T0", "CI"), Member("Settlement", "T1", "24hs"),
                Member("Settlement", "T2", "48hs"), Member("Settlement", "NONE", "") }

Segment == { Member("Segment", "DEFAULT", "C"), Member("Segment", "FCI", "FCI"),
             Member("Segment", "OPTIONS", "O"), Member("Segment", "REPO", "U") }

OrderType == { Member("OrderType", "LIMIT", "LIMIT"), Member("OrderType", "MARKET", "MARKET") }

OrderSide == { Member("OrderSide", "BUY", "BUY"), Member("OrderSide", "SELL", "SELL") }

ByName(enum, n) == CHOOSE m \in enum : m.name = n

\* bool(x) of the values the facade tests with "not x": None is falsy, an
\* Enum member is truthy whatever its value.
PyTruthy(x) == x # None

\* a == b.  The enums are plain Enum classes (no str mixin), so a str and a
\* member are never equal, whatever the member's value.
PyEq(a, b) == a = b

\* float(s) of the numeric strings the orders carry
PyFloat(s) ==
    CASE s = "0" -> 0 [] s = "1" -> 1 [] s = "2" -> 2 [] s = "3" -> 3
      [] s = "4" -> 4 [] s = "5" -> 5 [] s = "6" -> 6

\* str(n) of the account ids the profile carries
PyStr(n) == CASE n = 101 -> "101" [] n = 102 -> "102"

\* A long ticker is a str that the code splits on "-": it is the sequence of
\* its pieces, "-" being a piece of its own ("AAPL-0002" is <<"AAPL", "-",
\* "0002">>).  A field obtained by splitting is again such a sequence.
Dash == "-"

\* s.split("-")
RECURSIVE Split(_)
Split(s) ==
    IF \A i \in 1..Len(s) : s[i] # Dash
    THEN <<s>>
    ELSE LET i == CHOOSE j \in 1..Len(s) : s[j] = Dash /\ \A k \in 1..(j - 1) : s[k] # Dash
         IN <<SubSeq(s, 1, i - 1)>> \o Split(SubSeq(s, i + 1, Len(s)))

\* "-".join(fields)
RECURSIVE Join(_)
Join(fields) ==
    IF Len(fields) = 0 THEN <<>>
    ELSE IF Len(fields) = 1 THEN fields[1]
    ELSE fields[1] \o <<Dash>> \o Join(Tail(fields))

\* s.lower() of the currency codes
PyLower(s) ==
    IF s = <<"ARS">> THEN "ars" ELSE IF s = <<"USD">> THEN "usd" ELSE "other"

\* ------------------------------------------------------------------ errors
NoErr == [type |-> "none", msg |-> "", body |-> [t |-> "none"]]
Err(type, msg) == [type |-> type, msg |-> msg, body |-> [t |-> "none"]]
ErrBody(type, msg, body) == [type |-> type, msg |-> msg, body |-> body]

\* ------------------------------------------------------------- the server
\* status 0: the transport obtained no response (requests raises)
NoResponse == 0

ErrorBody == [t |-> "error", message |-> "remote error"]

\* The responses the server can give with one of the endpoint's documents.
\* The authentication endpoints answer a success with 200; the business
\* endpoints (ResponsesAny) also with 201, a success that is not a 200.
Responses(bodies) ==
    [status : {200}, body : bodies]
    \cup [status : {401, 500, NoResponse}, body : {ErrorBody}]

ResponsesAny(bodies) == Responses(bodies) \cup [status : {201}, body : bodies]

TokenBodies ==
    [t : {"token"}, success : {"absent", "false", "true"}, access_token : {"absent", "tokA"}]

FactorBodies ==
    { [t |-> "factors", requireChallenge |-> "absent", id |-> "absent"],
      [t |-> "factors", requireChallenge |-> "false",  id |-> "totp"],
      [t |-> "factors", requireChallenge |-> "true",   id |-> "absent"],
      [t |-> "factors", requireChallenge |-> "true",   id |-> "sms"],
      [t |-> "factors", requireChallenge |-> "true",   id |-> "mail"],
      [t |-> "factors", requireChallenge |-> "true",   id |-> "totp"] }

ChallengeBodies == { [t |-> "challenge"] }

VerifyBodies == [t : {"verify"}, access_token : {"absent", "tokB"}]

ProfileBodies ==
    { [t |-> "profile", has_ids |-> FALSE, id_accounts |-> <<>>],
      [t |-> "profile", has_ids |-> TRUE,  id_accounts |-> <<>>],
      [t |-> "profile", has_ids |-> TRUE,  id_accounts |-> <<101>>],
      [t |-> "profile", has_ids |-> TRUE,  id_accounts |-> <<102, 101>>] }

EmptyBodies == { [t |-> "empty"] }

DataBodies == { [t |-> "data"] }

NoBody == [t |-> "none"]

\* ------------------------------------------------------------ urls.endpoints
Endpoint(name) ==
    CASE name = "token"         -> "auth/v1/token"
      [] name = "logout"        -> "auth/v1/logout"
      [] name = "2factors"      -> "auth/v1/factors/default"
      [] name = "challenge"     -> "auth/v1/factors/{}/challenge"
      [] name = "verify"        -> "auth/v1/factors/{}/verify"
      [] name = "my_data"       -> "api/v1/users/me"
      [] name = "portfolio"     -> "api/v1/wallet/portfolio"
      [] name = "tickers"       -> "api/v1/markets/tickers/{}?segment={}"
      [] name = "orders"        -> "api/v2/orders"
      [] name = "buying_power"  -> "api/v2/orders/buying-power"
      [] name = "selling_power" -> "api/v2/orders/selling-power/?long_ticker={}"
      [] name = "bank_accounts" -> "api/v1/transfers/accounts"
      [] name = "withdraw"      -> "api/v1/transfers/withdraw"
      [] name = "daily_performance"    -> "api/v1/wallet/performance/daily"
      [] name = "historic_performance" -> "api/v1/wallet/performance/historic"

\* --------------------------------------------------- RestClient.api_request
\* what session.get / session.post / session.delete put on the wire: get
\* passes the url only, post passes params, data and json, delete passes
\* json only ("-" marks an argument that is not passed).
Request(path, method, params, json_data, data) ==
    CASE method = "get"    -> [path |-> path, method |-> "get", params |-> "-", data |-> "-", json |-> "-"]
      [] method = "post"   -> [path |-> path, method |-> "post", params |-> params, data |-> data, json |-> json_data]
      [] method = "delete" -> [path |-> path, method |-> "delete", params |-> "-", data |-> "-", json |-> json_data]

MethodSupportedAny(method) == TRUE

\* lines 451-452: method not in ["get", "post", "delete"] raises
MethodSupported(method) == method \in {"get", "post", "delete"}

\* lines 453-465: the three branches that dispatch a request; with any other
\* method response stays None
Dispatches(method) == method = "get" \/ method = "post" \/ method = "delete"

ResponseBoolNotNone(response) == response.status # NoResponse

\* bool(response): requests.Response.__bool__ returns response.ok, which is
\* false for every status from 400 up (and the call returns no Response at
\* all when the transport failed).
ResponseBool(response) == response.status # NoResponse /\ response.status < 400

LoggedWhenOk(status) == status < 400

\* line 481: only a response with status 200 is logged
Logged(status) == status = 200

\* _log_message: one audit entry; the timestamp is the wall clock, abstracted
LogEntry(path, json_response) ==
    [url |-> path, timestamp |-> "now", message |-> json_response]

Raised(err, seen, sentSeq, logged) ==
    [raised |-> TRUE, err |-> err, value |-> NoBody, seen |-> seen,
     sent |-> sentSeq, logged |-> logged]

Returned(value, seen, sentSeq, logged) ==
    [raised |-> FALSE, err |-> NoErr, value |-> value, seen |-> seen,
     sent |-> sentSeq, logged |-> logged]

\* api_request(path, retry, method, params, json_data, data); resps are the
\* responses the server gives to the requests of this call, in order.  The
\* result tells whether the call raised or returned and what, the statuses it
\* saw, the requests it dispatched and the audit entries it appended.
RECURSIVE ApiRequest(_, _, _, _, _, _, _)
ApiRequest(path, retry, method, params, json_data, data, resps) ==
    IF ~MethodSupported(method)
    THEN Raised(Err("ApiException", "Method not suported"), <<>>, <<>>, <<>>)
    ELSE IF ~Dispatches(method)
    THEN Raised(Err("ApiException", "Bad HTTP API Response"), <<>>, <<>>, <<>>)
    ELSE
      LET response == Head(resps)
          req      == Request(path, method, params, json_data, data)
          st       == response.status
      IN
      IF st = NoResponse
      THEN Raised(Err("ConnectionError", "transport"), <<st>>, <<req>>, <<>>)
      ELSE IF ~ResponseBool(response)
      THEN Raised(Err("ApiException", "Bad HTTP API Response"), <<st>>, <<req>>, <<>>)
      ELSE
        LET json_response == response.body
            again == IF st = 401 /\ retry
                     THEN ApiRequest(path, FALSE, "get", "", "{}", "", Tail(resps))
                     ELSE Returned(NoBody, <<>>, <<>>, <<>>)
        IN
        IF st = 401 /\ ~retry
        THEN Raised(Err("ApiException", "Authentication Fails."), <<st>>, <<req>>, <<>>)
        ELSE IF again.raised
        THEN Raised(again.err, <<st>> \o again.seen, <<req>> \o again.sent, again.logged)
        ELSE IF st = 500
        THEN Raised(ErrBody("ApiException", "Error 500", json_response),
                    <<st>> \o again.seen, <<req>> \o again.sent, again.logged)
        ELSE Returned(json_response, <<st>> \o again.seen, <<req>> \o again.sent,
                      again.logged \o (IF Logged(st) THEN <<LogEntry(path, json_response)>>
                                       ELSE <<>>))

\* the record kept of one api_request call
ApiRecord(r) == [seen |-> r.seen, nreq |-> Len(r.sent), raised |-> r.raised, err |-> r.err,
                 value |-> r.value]

\* RestClient.update_session_headers: session.headers is a requests
\* CaseInsensitiveDict, so "Apikey" and "apikey" are one key.
\* a header name that is not installed, a field that is not assigned yet
Unset == "<unset>"
HeaderKeys == {"apikey", "authorization", "x-account-id"}
LowerKey(k) ==
    CASE k = "Apikey" -> "apikey" [] k = "Authorization" -> "authorization" [] OTHER -> k
UpdateSessionHeadersReplace(h, header_update) ==
    [k \in HeaderKeys |->
        IF \E p \in header_update : LowerKey(p[1]) = k
        THEN (CHOOSE p \in header_update : LowerKey(p[1]) = k)[2]
        ELSE Unset]

UpdateSessionHeaders(h, header_update) ==
    [k \in HeaderKeys |->
        IF \E p \in header_update : LowerKey(p[1]) = k
        THEN (CHOOSE p \in header_update : LowerKey(p[1]) = k)[2]
        ELSE h[k]]

ApiKey == "APIKEY"
Bearer(token) == "Bearer " \o token

\* ------------------------------------------------------------------- Init
\* The facade after the field initialisation of __init__ (lines 31-77), at
\* the call of _auth(): nothing is installed on the session yet.
NoArgs == [t |-> "none"]
Unbound == "<unbound>"

Init ==
    /\ pc = "token"
    /\ topt \in BOOLEAN
    /\ connected = FALSE
    /\ access_token = Unset
    /\ account_number = ""
    /\ headers = [k \in HeaderKeys |-> Unset]
    /\ orders = <<>>
    /\ messages = <<>>
    /\ sent = <<>>
    /\ api = [seen |-> <<>>, nreq |-> 0, raised |-> FALSE, err |-> NoErr, value |-> NoBody]
    /\ op = [name |-> "__init__", args |-> NoArgs, outcome |-> "running", err |-> NoErr,
             value |-> NoBody]
    /\ frame = [t |-> "auth", challenge_id |-> Unbound, code |-> Unbound]
    /\ hist = [token |-> NoBody, factor |-> NoBody, verify |-> NoBody, profile |-> NoBody,
               loggedOut |-> FALSE]
    /\ nops = 0

\* bookkeeping of one api_request call r made by the operation in progress
Called(r) ==
    /\ messages' = messages \o r.logged
    /\ sent' = sent \o r.sent
    /\ api' = ApiRecord(r)

\* the constructor raises: no facade is handed to the caller
ConstructionFails(err) ==
    /\ pc' = "failed"
    /\ op' = [op EXCEPT !.outcome = "raised", !.err = err]

\* ------------------------------------------------------------ Cocos._auth
\* the login step rejects the token response
TokenRejectedNever(response) == FALSE
TokenRejectedTokenOnly(response) == response.access_token = "absent"
TokenRejected(response) ==
    \/ response.success = "false"
    \/ response.access_token = "absent"

AuthToken ==
    /\ pc = "token"
    /\ \E r1, r2 \in Responses(TokenBodies) :
        LET r == ApiRequest(Endpoint("token"), TRUE, "post", "grant_type=password", "{}",
                            "credentials", <<r1, r2>>)
        IN
        /\ Called(r)
        /\ headers' = UpdateSessionHeaders(headers,
                          {<<"Apikey", ApiKey>>, <<"Authorization", Bearer(ApiKey)>>})
        /\ IF r.raised
           THEN /\ ConstructionFails(r.err)
                /\ UNCHANGED <<access_token, hist>>
           ELSE /\ hist' = [hist EXCEPT !.token = r.value]
                /\ IF TokenRejected(r.value)
                   THEN /\ ConstructionFails(Err("Exception", "token response rejected"))
                        /\ UNCHANGED access_token
                   ELSE /\ access_token' = r.value.access_token
                        /\ pc' = "2factors"
                        /\ UNCHANGED op
    /\ UNCHANGED <<topt, connected, account_number, orders, frame, nops>>

\* ---------------------------------------------------- Cocos._2fa_challenge
\* line 115: the challenge id is bound only when a challenge is required
RequireChallenge(response) == response.requireChallenge = "true"

TwoFactors ==
    /\ pc = "2factors"
    /\ \E r1, r2 \in Responses(FactorBodies) :
        LET r == ApiRequest(Endpoint("2factors"), TRUE, "get", "", "{}", "", <<r1, r2>>)
        IN
        /\ Called(r)
        /\ headers' = UpdateSessionHeaders(headers,
                          {<<"apikey", ApiKey>>, <<"authorization", Bearer(access_token)>>})
        /\ IF r.raised
           THEN /\ ConstructionFails(r.err)
                /\ UNCHANGED <<frame, hist>>
           ELSE /\ hist' = [hist EXCEPT !.factor = r.value]
                /\ IF RequireChallenge(r.value)
                   THEN IF r.value.id = "absent"
                        THEN /\ ConstructionFails(Err("KeyError", "id"))
                             /\ UNCHANGED frame
                        ELSE /\ frame' = [frame EXCEPT !.challenge_id = r.value.id]
                             /\ pc' = "challenge"
                             /\ UNCHANGED op
                   ELSE \* line 120 reads challenge_id, which was never assigned
                        /\ ConstructionFails(Err("UnboundLocalError", "challenge_id"))
                        /\ UNCHANGED frame
    /\ UNCHANGED <<topt, connected, access_token, account_number, orders, nops>>

UsesTotpWhenConfigured(challenge_id, configured) == configured

\* line 125: the code is computed by the TOTP generator
UsesTotp(challenge_id, configured) == challenge_id \notin {"mail", "sms"} /\ configured

ChallengeRequest ==
    /\ pc = "challenge"
    /\ \E r1, r2 \in Responses(ChallengeBodies) :
        LET r == ApiRequest(Endpoint("challenge"), TRUE, "post", "", "{}", "", <<r1, r2>>)
        IN
        /\ Called(r)
        /\ IF r.raised
           THEN /\ ConstructionFails(r.err)
                /\ UNCHANGED frame
           ELSE /\ UNCHANGED op
                /\ IF UsesTotp(frame.challenge_id, topt)
                   THEN /\ frame' = [frame EXCEPT !.code = "totp.now"]
                        /\ pc' = "verify"
                   ELSE /\ pc' = "input"
                        /\ UNCHANGED frame
    /\ UNCHANGED <<topt, connected, access_token, account_number, headers, orders, hist, nops>>

\* line 128: input() blocks until the user types a code
Codes == {"123456"}

InputCode ==
    /\ pc = "input"
    /\ \E code \in Codes : frame' = [frame EXCEPT !.code = code]
    /\ pc' = "verify"
    /\ UNCHANGED <<topt, connected, access_token, account_number, headers, orders, messages,
                   sent, api, op, hist, nops>>

\* line 137: the verification response carries the new access token
VerifyAcceptedAny(response) == TRUE
VerifyAccepted(response) == response.access_token # "absent"

Verify ==
    /\ pc = "verify"
    /\ \E r1, r2 \in Responses(VerifyBodies) :
        LET r == ApiRequest(Endpoint("verify"), TRUE, "post", "", frame.code, "", <<r1, r2>>)
        IN
        /\ Called(r)
        /\ IF r.raised
           THEN /\ ConstructionFails(r.err)
                /\ UNCHANGED <<access_token, hist>>
           ELSE /\ hist' = [hist EXCEPT !.verify = r.value]
                /\ IF VerifyAccepted(r.value)
                   THEN /\ access_token' = r.value.access_token
                        /\ pc' = "my_data"
                        /\ UNCHANGED op
                   ELSE /\ ConstructionFails(Err("Exception", "Access token not found"))
                        /\ UNCHANGED access_token
    /\ UNCHANGED <<topt, connected, account_number, headers, orders, frame, nops>>

\* ----------------------------------------------------- Cocos._auth_phase_2
\* line 165, reached only after the profile gave the account number
ConnectedAfterProfile == TRUE

AccountNumberLast(my_account_info) ==
    PyStr(my_account_info.id_accounts[Len(my_account_info.id_accounts)])

\* line 161: str(self.my_account_info["id_accounts"][0])
AccountNumber(my_account_info) == PyStr(my_account_info.id_accounts[1])

AuthPhase2 ==
    /\ pc = "my_data"
    /\ \E r1, r2 \in Responses(ProfileBodies) :
        LET h1 == UpdateSessionHeaders(headers,
                      {<<"apikey", "">>, <<"authorization", Bearer(access_token)>>,
                       <<"x-account-id", account_number>>})
            r  == ApiRequest(Endpoint("my_data"), TRUE, "get", "", "{}", "", <<r1, r2>>)
        IN
        /\ Called(r)
        /\ IF r.raised
           THEN /\ ConstructionFails(r.err)
                /\ headers' = h1
                /\ UNCHANGED <<account_number, connected, hist>>
           ELSE /\ hist' = [hist EXCEPT !.profile = r.value]
                /\ IF ~r.value.has_ids \/ r.value.id_accounts = <<>>
                   THEN /\ ConstructionFails(IF r.value.has_ids THEN Err("IndexError", "0")
                                             ELSE Err("KeyError", "id_accounts"))
                        /\ headers' = h1
                        /\ UNCHANGED <<account_number, connected>>
                   ELSE /\ account_number' = AccountNumber(r.value)
                        /\ headers' = UpdateSessionHeaders(h1,
                                          {<<"x-account-id", account_number'>>})
                        /\ connected' = ConnectedAfterProfile
                        /\ pc' = "idle"
                        /\ op' = [op EXCEPT !.outcome = "returned"]
    /\ UNCHANGED <<topt, access_token, orders, frame, nops>>

\* ------------------------------------------------------- public operations
\* a public method is invoked on a constructed facade, one at a time
CanInvoke == pc = "idle" /\ nops < MaxOps

\* the operation in progress ends: it returns value or raises err
Ends(name, args, r) ==
    /\ nops' = nops + 1
    /\ op' = [name |-> name, args |-> args,
              outcome |-> IF r.raised THEN "raised" ELSE "returned",
              err |-> r.err, value |-> r.value]

\* Cocos.logout
LogoutKeepsConnected == TRUE
ConnectedAfterLogout == FALSE

Logout ==
    /\ CanInvoke
    /\ \E r1, r2 \in Responses(EmptyBodies) :
        LET r == ApiRequest(Endpoint("logout"), TRUE, "post", "", "{}", "", <<r1, r2>>)
        IN
        /\ messages' = messages \o r.logged
        /\ sent' = r.sent
        /\ api' = ApiRecord(r)
        /\ Ends("logout", NoArgs, [r EXCEPT !.value = NoBody])
        /\ IF r.raised
           THEN UNCHANGED <<connected, hist>>
           ELSE /\ connected' = ConnectedAfterLogout
                /\ hist' = [hist EXCEPT !.loggedOut = TRUE]
    /\ UNCHANGED <<pc, topt, access_token, account_number, headers, orders, frame>>

\* Cocos.my_data / my_portfolio / funds_available: one GET, its payload returned
QueryEndpoint(name) ==
    CASE name = "my_data"         -> "my_data"
      [] name = "my_portfolio"    -> "portfolio"
      [] name = "funds_available" -> "buying_power"

Queries == {"my_data", "my_portfolio", "funds_available"}

Query ==
    /\ CanInvoke
    /\ \E name \in Queries : \E r1, r2 \in ResponsesAny(DataBodies) :
        LET r == ApiRequest(Endpoint(QueryEndpoint(name)), TRUE, "get", "", "{}", "",
                            <<r1, r2>>)
        IN
        /\ messages' = messages \o r.logged
        /\ sent' = r.sent
        /\ api' = ApiRecord(r)
        /\ Ends(name, NoArgs, r)
    /\ UNCHANGED <<pc, topt, connected, access_token, account_number, headers, orders, frame,
                   hist>>

\* ------------------------------------------------------ orders: the server
\* GET tickers: the instrument snapshot, a list of entries
AAPL == <<"AAPL", "-", "0002", "-", "C", "-", "CT", "-", "ARS">>
AAPLCI == <<"AAPL", "-", "0001", "-", "C", "-", "CT", "-", "ARS">>

Entry(lt, ask, pf) == [long_ticker |-> lt, ask |-> ask, price_factor |-> pf]

SnapshotBodies ==
    { [t |-> "snapshot", list |-> <<>>],
      [t |-> "snapshot", list |-> <<Entry(AAPL, 2, 1)>>],
      [t |-> "snapshot", list |-> <<Entry(AAPLCI, 3, 0), Entry(AAPL, 1, 2)>>],
      [t |-> "snapshot", list |-> <<Entry(AAPL, 1, 2), Entry(AAPL, 2, 1)>>] }

\* GET buying-power: funds by settlement tenor and currency
FundsDoc(a) ==
    [t |-> "funds",
     tenors |-> {"CI", "24hs", "48hs"},
     funds |-> [tn \in {"CI", "24hs", "48hs"} |->
                  [c \in {"ars", "usd"} |-> IF tn = "24hs" /\ c = "ars" THEN a ELSE 0]]]

FundsBodies ==
    { FundsDoc(a) : a \in 0..MaxFunds }
    \cup { [t |-> "funds", tenors |-> {"CI"},
            funds |-> [tn \in {"CI"} |-> [c \in {"ars", "usd"} |-> MaxFunds]]] }

\* GET selling-power: stock by settlement tenor
StockBodies ==
    { [t |-> "stock", tenors |-> {"24hs"}, stock |-> [tn \in {"24hs"} |-> a]] : a \in 0..MaxFunds }
    \cup { [t |-> "stock", tenors |-> {}, stock |-> [tn \in {"CI"} |-> 0]] }

\* POST orders: the submission's answer
OrderBodies ==
    [t : {"order"}, success : {"absent", "true", "false"}, Orden : {"absent", "ord1"}]

\* ------------------------------------------------------- orders: the inputs
BuyTickers ==
    { AAPL,
      <<"AAPL", "-", "9999", "-", "C", "-", "CT", "-", "ARS">>,
      <<"AAPL", "-", "0002", "-", "X", "-", "CT", "-", "ARS">>,
      <<"AAPL">> }

\* the keyword arguments of submit_buy_order: any of price, quantity, amount
KwargValue(k) == CASE k = "price" -> "2" [] k = "quantity" -> "1" [] k = "amount" -> "1"
Kwargs == { [k \in ks |-> KwargValue(k)] : ks \in SUBSET {"price", "quantity", "amount"} }

\* lines 451-466: the payload is the basic payload plus the keyword arguments
BuyPayload(long_ticker, order_type, kwargs) ==
    [k \in {"long_ticker", "side", "type"} \cup DOMAIN kwargs |->
        CASE k = "long_ticker" -> long_ticker
          [] k = "side" -> ByName(OrderSide, "BUY").value
          [] k = "type" -> Str(order_type.value)
          [] OTHER -> kwargs[k]]

Has(payload, k) == k \in DOMAIN payload

\* ----------------------------------------------------- ticker code lookups
GetCocosSettlementSwapped(code) ==
    IF code = <<"0001">> THEN ByName(Settlement, "T1")
    ELSE IF code = <<"0002">> THEN ByName(Settlement, "T0")
    ELSE IF code = <<"0003">> THEN ByName(Settlement, "T2")
    ELSE None

\* _get_cocos_settlement: dict.get, None on a miss
GetCocosSettlement(code) ==
    IF code = <<"0001">> THEN ByName(Settlement, "T0")
    ELSE IF code = <<"0002">> THEN ByName(Settlement, "T1")
    ELSE IF code = <<"0003">> THEN ByName(Settlement, "T2")
    ELSE None

\* _get_cocos_segment: Segment(code), which raises ValueError on a miss
SegmentKnown(code) == Len(code) = 1 /\ \E m \in Segment : m.value = code[1]
GetCocosSegment(code) == CHOOSE m \in Segment : m.value = code[1]

\* --------------------------------------------- Cocos._validate_buy_order
\* lines 1107-1117: the shape check; the error it raises or NoErr
ShapeCheck(payload) ==
    IF PyEq(payload["type"], ByName(OrderType, "LIMIT")) /\ ~Has(payload, "price")
    THEN Err("ApiException", "price must be present in LIMIT order")
    ELSE IF PyEq(payload["type"], ByName(OrderType, "LIMIT"))
            /\ (~Has(payload, "quantity") \/ ~Has(payload, "amount"))
    THEN Err("ApiException", "quantity or amount must be present in LIMIT order")
    ELSE IF PyEq(payload["type"], ByName(OrderType, "MARKET")) /\ Has(payload, "price")
    THEN Err("ApiException", "price can't be present in MARKET order")
    ELSE IF PyEq(payload["type"], ByName(OrderType, "MARKET"))
            /\ Has(payload, "amount") /\ Has(payload, "quantity")
    THEN Err("ApiException", "amount and quantity can't be present simultaneously")
    ELSE NoErr

\* line 1125: 'amount' not in payload.items().  items() yields (key, value)
\* tuples and a str never equals a tuple.
PyStrEqTuple(s, tp) == FALSE
InItems(s, payload) == \E k \in DOMAIN payload : PyStrEqTuple(s, <<k, payload[k]>>)

\* _get_instrument_snapshot_value_by_key: the first entry with the long
\* ticker gives the value; "" when there is none
NotFound == [found |-> FALSE, value |-> 0]
SnapshotValueByKey(list, long_ticker, key) ==
    IF \E i \in 1..Len(list) : list[i].long_ticker = long_ticker
    THEN LET i == CHOOSE j \in 1..Len(list) :
                    /\ list[j].long_ticker = long_ticker
                    /\ \A k \in 1..(j - 1) : list[k].long_ticker # long_ticker
         IN [found |-> TRUE, value |-> list[i][key]]
    ELSE NotFound

\* line 1127: float(payload["quantity"]) * float(payload["price"]) / price_factor,
\* kept as the fraction num / den; or the error the expression raises
OrderTotal(payload, price_factor) ==
    IF ~Has(payload, "quantity") THEN [err |-> Err("KeyError", "quantity"), num |-> 0, den |-> 1]
    ELSE IF ~Has(payload, "price") THEN [err |-> Err("KeyError", "price"), num |-> 0, den |-> 1]
    ELSE IF ~price_factor.found THEN [err |-> Err("TypeError", "float / str"), num |-> 0, den |-> 1]
    ELSE IF price_factor.value = 0 THEN [err |-> Err("ZeroDivisionError", ""), num |-> 0, den |-> 1]
    ELSE [err |-> NoErr,
          num |-> PyFloat(payload["quantity"]) * PyFloat(payload["price"]),
          den |-> price_factor.value]

\* line 1136: available >= order_total, with order_total = num / den, den > 0
FundsSuffice(available, total) == available * total.den >= total.num

\* lines 472-473 and 511-512: a false validation blocks the submission
BlocksNever(valid) == FALSE
Blocks(valid) == ~valid

\* --------------------------------------------------------------- InitOrders
\* A facade whose construction succeeded (second factor by sms, code typed
\* in), before its first order.
MaxOrders == 1

ConstructedHeaders ==
    [k \in HeaderKeys |->
        CASE k = "apikey" -> "" [] k = "authorization" -> Bearer("tokB")
          [] k = "x-account-id" -> "101"]

Constructed ==
    /\ pc = "idle"
    /\ topt = FALSE
    /\ connected = TRUE
    /\ access_token = "tokB"
    /\ account_number = "101"
    /\ headers = ConstructedHeaders
    /\ orders = <<>>
    /\ messages = << LogEntry(Endpoint("token"),
                        [t |-> "token", success |-> "absent", access_token |-> "tokA"]),
                     LogEntry(Endpoint("2factors"),
                        [t |-> "factors", requireChallenge |-> "true", id |-> "sms"]),
                     LogEntry(Endpoint("challenge"), [t |-> "challenge"]),
                     LogEntry(Endpoint("verify"), [t |-> "verify", access_token |-> "tokB"]),
                     LogEntry(Endpoint("my_data"),
                        [t |-> "profile", has_ids |-> TRUE, id_accounts |-> <<101>>]) >>
    /\ hist = [token |-> [t |-> "token", success |-> "absent", access_token |-> "tokA"],
               factor |-> [t |-> "factors", requireChallenge |-> "true", id |-> "sms"],
               verify |-> [t |-> "verify", access_token |-> "tokB"],
               profile |-> [t |-> "profile", has_ids |-> TRUE, id_accounts |-> <<101>>],
               loggedOut |-> FALSE]
    /\ nops = 0

InitOrders ==
    /\ Constructed
    /\ sent = << Request(Endpoint("token"), "post", "grant_type=password", "{}", "credentials"),
                 Request(Endpoint("2factors"), "get", "", "{}", ""),
                 Request(Endpoint("challenge"), "post", "", "{}", ""),
                 Request(Endpoint("verify"), "post", "", "123456", ""),
                 Request(Endpoint("my_data"), "get", "", "{}", "") >>
    /\ api = [seen |-> <<200>>, nreq |-> 1, raised |-> FALSE, err |-> NoErr,
              value |-> [t |-> "profile", has_ids |-> TRUE, id_accounts |-> <<101>>]]
    /\ op = [name |-> "__init__", args |-> NoArgs, outcome |-> "returned", err |-> NoErr,
             value |-> NoBody]
    /\ frame = [t |-> "auth", challenge_id |-> "sms", code |-> "123456"]

CanOrder == pc = "idle" /\ nops < MaxOrders

\* the operation in progress raises err / returns value
OpRaises(err) ==
    /\ pc' = "idle"
    /\ op' = [op EXCEPT !.outcome = "raised", !.err = err]

OpReturns(value) ==
    /\ pc' = "idle"
    /\ op' = [op EXCEPT !.outcome = "returned", !.value = value]

\* ------------------------------------------------- Cocos.submit_buy_order
\* lines 450-472 and _validate_buy_order lines 1097-1125: everything up to
\* the first network call of the validation
SubmitBuyOrder ==
    /\ CanOrder
    /\ \E long_ticker \in BuyTickers, order_type \in OrderType, kwargs \in Kwargs :
        LET payload == BuyPayload(long_ticker, order_type, kwargs)
            fields  == Split(long_ticker)
            f0      == [t |-> "buy", payload |-> payload, settlement |-> None,
                        segment |-> None, currency |-> "", shape |-> "unreached",
                        ask |-> NotFound, price_factor |-> NotFound,
                        total |-> [err |-> NoErr, num |-> 0, den |-> 1],
                        available |-> -1, valid |-> "unset", orders0 |-> orders]
        IN
        /\ nops' = nops + 1
        /\ sent' = <<>>
        /\ IF Len(fields) # 5
           THEN /\ frame' = f0
                /\ pc' = "idle"
                /\ op' = [name |-> "submit_buy_order", args |-> payload, outcome |-> "raised",
                          err |-> Err("ValueError", "unpack"), value |-> NoBody]
           ELSE IF ~SegmentKnown(fields[3])
           THEN /\ frame' = f0
                /\ pc' = "idle"
                /\ op' = [name |-> "submit_buy_order", args |-> payload, outcome |-> "raised",
                          err |-> Err("ValueError", "not a valid Segment"), value |-> NoBody]
           ELSE
             LET settlement == GetCocosSettlement(fields[2])
                 segment    == GetCocosSegment(fields[3])
                 f1 == [f0 EXCEPT !.settlement = settlement, !.segment = segment,
                                  !.currency = PyLower(fields[5])]
             IN
             IF ~PyTruthy(settlement) \/ ~PyTruthy(segment)
             THEN /\ frame' = [f1 EXCEPT !.valid = "false"]
                  /\ IF Blocks(FALSE)
                     THEN /\ pc' = "idle"
                          /\ op' = [name |-> "submit_buy_order", args |-> payload,
                                    outcome |-> "raised",
                                    err |-> Err("ApiException", "Not enough money to purchase"),
                                    value |-> NoBody]
                     ELSE /\ pc' = "buy_post"
                          /\ op' = [name |-> "submit_buy_order", args |-> payload,
                                    outcome |-> "running", err |-> NoErr, value |-> NoBody]
             ELSE IF ShapeCheck(payload) # NoErr
             THEN /\ frame' = [f1 EXCEPT !.shape = "raised"]
                  /\ pc' = "idle"
                  /\ op' = [name |-> "submit_buy_order", args |-> payload,
                            outcome |-> "raised", err |-> ShapeCheck(payload),
                            value |-> NoBody]
             ELSE /\ frame' = [f1 EXCEPT !.shape = "passed"]
                  /\ op' = [name |-> "submit_buy_order", args |-> payload,
                            outcome |-> "running", err |-> NoErr, value |-> NoBody]
                  /\ pc' = IF ~Has(payload, "price") THEN "buy_ask"
                           ELSE IF ~InItems("amount", payload) THEN "buy_price_factor"
                           ELSE "buy_funds"
    /\ UNCHANGED <<topt, connected, access_token, account_number, headers, orders, messages,
                   api, hist>>

\* line 1121: the asking price is looked up in the instrument snapshot
BuyAsk ==
    /\ pc = "buy_ask"
    /\ \E r1, r2 \in Responses(SnapshotBodies) :
        LET r == ApiRequest(Endpoint("tickers"), TRUE, "get", "", "{}", "", <<r1, r2>>)
        IN
        /\ Called(r)
        /\ IF r.raised
           THEN /\ OpRaises(r.err)
                /\ UNCHANGED frame
           ELSE /\ frame' = [frame EXCEPT
                                !.ask = SnapshotValueByKey(r.value.list,
                                            frame.payload["long_ticker"], "ask")]
                /\ pc' = IF ~InItems("amount", frame.payload) THEN "buy_price_factor"
                         ELSE "buy_funds"
                /\ UNCHANGED op
    /\ UNCHANGED <<topt, connected, access_token, account_number, headers, orders, hist, nops>>

\* lines 1126-1127: the price factor is looked up, then the total computed
BuyPriceFactor ==
    /\ pc = "buy_price_factor"
    /\ \E r1, r2 \in Responses(SnapshotBodies) :
        LET r == ApiRequest(Endpoint("tickers"), TRUE, "get", "", "{}", "", <<r1, r2>>)
        IN
        /\ Called(r)
        /\ IF r.raised
           THEN /\ OpRaises(r.err)
                /\ UNCHANGED frame
           ELSE LET pf == SnapshotValueByKey(r.value.list, frame.payload["long_ticker"],
                                             "price_factor")
                    total == OrderTotal(frame.payload, pf)
                IN
                /\ frame' = [frame EXCEPT !.price_factor = pf, !.total = total]
                /\ IF total.err # NoErr
                   THEN OpRaises(total.err)
                   ELSE pc' = "buy_funds" /\ UNCHANGED op
    /\ UNCHANGED <<topt, connected, access_token, account_number, headers, orders, hist, nops>>

\* lines 1131-1136 and 472-473: the funds are fetched and compared
BuyFunds ==
    /\ pc = "buy_funds"
    /\ \E r1, r2 \in Responses(FundsBodies) :
        LET r == ApiRequest(Endpoint("buying_power"), TRUE, "get", "", "{}", "", <<r1, r2>>)
        IN
        /\ Called(r)
        /\ IF r.raised
           THEN /\ OpRaises(r.err)
                /\ UNCHANGED frame
           ELSE IF frame.settlement.value \notin r.value.tenors
           THEN /\ OpRaises(Err("KeyError", "settlement"))
                /\ UNCHANGED frame
           ELSE IF frame.currency \notin DOMAIN r.value.funds[frame.settlement.value]
           THEN /\ OpRaises(Err("KeyError", "currency"))
                /\ UNCHANGED frame
           ELSE LET available == r.value.funds[frame.settlement.value][frame.currency]
                    valid == FundsSuffice(available, frame.total)
                IN
                /\ frame' = [frame EXCEPT !.available = available,
                                          !.valid = IF valid THEN "true" ELSE "false"]
                /\ IF Blocks(valid)
                   THEN OpRaises(Err("ApiException", "Not enough money to purchase"))
                   ELSE pc' = "buy_post" /\ UNCHANGED op
    /\ UNCHANGED <<topt, connected, access_token, account_number, headers, orders, hist, nops>>

\* lines 475-478: the order is submitted and its identifier recorded
BuyPost ==
    /\ pc = "buy_post"
    /\ \E r1, r2 \in ResponsesAny(OrderBodies) :
        LET r == ApiRequest(Endpoint("orders"), TRUE, "post", "", "payload", "", <<r1, r2>>)
        IN
        /\ Called(r)
        /\ IF r.raised
           THEN /\ OpRaises(r.err)
                /\ UNCHANGED orders
           ELSE IF r.value.success = "absent"
           THEN /\ OpReturns(r.value)
                /\ UNCHANGED orders
           ELSE IF r.value.Orden = "absent"
           THEN /\ OpRaises(Err("KeyError", "Orden"))
                /\ UNCHANGED orders
           ELSE /\ orders' = Append(orders, r.value.Orden)
                /\ OpReturns(r.value)
    /\ UNCHANGED <<topt, connected, access_token, account_number, headers, frame, hist, nops>>

\* ------------------------------------------------ Cocos.submit_sell_order
SellTickers ==
    { AAPL, <<"AAPL", "-", "9999", "-", "C", "-", "CT", "-", "ARS">>, <<"AAPL">> }

SellQuantities == {"1"}

\* lines 501-508 and _validate_sell_power lines 1149-1150: up to the
\* selling-power request
SubmitSellOrder ==
    /\ CanOrder
    /\ \E long_ticker \in SellTickers, quantity \in SellQuantities, order_type \in OrderType :
        LET args == [long_ticker |-> long_ticker, quantity |-> quantity, price |-> "2",
                     type |-> Str(order_type.value)]
            fields == Split(long_ticker)
            f0 == [t |-> "sell", payload |-> args, settlement |-> None, available |-> -1,
                   valid |-> "unset", orders0 |-> orders]
        IN
        /\ nops' = nops + 1
        /\ sent' = <<>>
        /\ IF Len(fields) < 2
           THEN /\ frame' = f0
                /\ pc' = "idle"
                /\ op' = [name |-> "submit_sell_order", args |-> args, outcome |-> "raised",
                          err |-> Err("IndexError", "1"), value |-> NoBody]
           ELSE /\ frame' = [f0 EXCEPT !.settlement = GetCocosSettlement(fields[2])]
                /\ pc' = "sell_stocks"
                /\ op' = [name |-> "submit_sell_order", args |-> args, outcome |-> "running",
                          err |-> NoErr, value |-> NoBody]
    /\ UNCHANGED <<topt, connected, access_token, account_number, headers, orders, messages,
                   api, hist>>

StockSufficesStrict(available, quantity) == available > PyFloat(quantity)

\* line 1156: available >= float(quantity)
StockSuffices(available, quantity) == available >= PyFloat(quantity)

\* _validate_sell_power lines 1151-1156 and lines 511-512
SellStocks ==
    /\ pc = "sell_stocks"
    /\ \E r1, r2 \in Responses(StockBodies) :
        LET r == ApiRequest(Endpoint("selling_power"), TRUE, "get", "", "{}", "", <<r1, r2>>)
        IN
        /\ Called(r)
        /\ IF r.raised
           THEN /\ OpRaises(r.err)
                /\ UNCHANGED frame
           ELSE LET available == IF frame.settlement.value \in r.value.tenors
                                 THEN r.value.stock[frame.settlement.value] ELSE 0
                    valid == /\ PyTruthy(frame.settlement)
                             /\ StockSuffices(available, frame.payload.quantity)
                IN
                /\ frame' = [frame EXCEPT !.available = available,
                                          !.valid = IF valid THEN "true" ELSE "false"]
                /\ IF Blocks(valid)
                   THEN OpRaises(Err("ApiException", "Not enough stocks to sell"))
                   ELSE pc' = "sell_post" /\ UNCHANGED op
    /\ UNCHANGED <<topt, connected, access_token, account_number, headers, orders, hist, nops>>

\* lines 514-524: the sell order is submitted; its identifier is not recorded
SellPost ==
    /\ pc = "sell_post"
    /\ \E r1, r2 \in ResponsesAny(OrderBodies) :
        LET r == ApiRequest(Endpoint("orders"), TRUE, "post", "", "payload", "", <<r1, r2>>)
        IN
        /\ Called(r)
        /\ IF r.raised THEN OpRaises(r.err) ELSE OpReturns(r.value)
    /\ UNCHANGED <<topt, connected, access_token, account_number, headers, orders, frame,
                   hist, nops>>

\* ------------------------------------------------------- Cocos.long_ticker
Currency == { Member("Currency", "ALL", "INDISTINTO"), Member("Currency", "CABLE", "EXT"),
              Member("Currency", "NONE", ""), Member("Currency", "PESOS", "ARS"),
              Member("Currency", "USD", "USD") }

\* a str without "-" as the sequence of its pieces: the empty str has none
Pieces(s) == IF s = "" THEN <<>> ELSE <<s>>

\* ticker.upper(), piece by piece
UpperPiece(x) ==
    CASE x = "aapl" -> "AAPL" [] x = "brk" -> "BRK" [] x = "b" -> "B" [] OTHER -> x
PyUpper(s) == [i \in 1..Len(s) |-> UpperPiece(s[i])]

GetBymaSettlementShifted(settlement) ==
    IF settlement = ByName(Settlement, "T0") THEN "0002"
    ELSE IF settlement = ByName(Settlement, "T1") THEN "0003"
    ELSE IF settlement = ByName(Settlement, "T2") THEN "0001"
    ELSE ""

\* _get_byma_settlement: dict.get with "" as the default
GetBymaSettlement(settlement) ==
    IF settlement = ByName(Settlement, "T0") THEN "0001"
    ELSE IF settlement = ByName(Settlement, "T1") THEN "0002"
    ELSE IF settlement = ByName(Settlement, "T2") THEN "0003"
    ELSE ""

\* _get_byma_currency
GetBymaCurrency(currency) == currency.value

\* long_ticker(ticker, settlement, currency, segment), lines 1079-1085
LongTickerOf(ticker, settlement, currency, segment) ==
    IF segment = ByName(Segment, "FCI")
    THEN PyUpper(ticker)
    ELSE LET _settlement == GetBymaSettlement(settlement)
             _currency   == GetBymaCurrency(currency)
         IN PyUpper(ticker) \o <<Dash>> \o Pieces(_settlement) \o <<Dash>>
              \o Pieces(segment.value) \o <<Dash, "CT", Dash>> \o Pieces(_currency)

\* the tickers the helper is called with: lower case, upper case, one of the
\* docstring, one that holds a "-", and the empty str
Tickers == { <<"aapl">>, <<"AAPL">>, <<"GFGC500.JU">>, <<"brk", "-", "b">>, <<>> }

LongTicker ==
    /\ pc = "idle"
    /\ \E ticker \in Tickers, settlement \in Settlement, currency \in Currency,
          segment \in Segment :
        op' = [name |-> "long_ticker",
               args |-> [ticker |-> ticker, settlement |-> settlement,
                         currency |-> currency, segment |-> segment],
               outcome |-> "returned", err |-> NoErr,
               value |-> [t |-> "str",
                          s |-> LongTickerOf(ticker, settlement, currency, segment)]]
    /\ UNCHANGED <<pc, topt, connected, access_token, account_number, headers, orders,
                   messages, sent, api, frame, hist, nops>>

\* ------------------------------- Cocos._validate_list_parameters (1336-1349)
\* allowed_combinations, lines 924-939
AllowedCombinations ==
    << <<"ACCIONES", "LIDERES">>, <<"ACCIONES", "GENERAL">>, <<"CEDEARS", "TOP">>,
       <<"CEDEARS", "ETF">>, <<"CEDEARS", "NUEVOS">>, <<"CEDEARS", "OTROS">>,
       <<"BONOS_PUBLICOS", "NACIONALES_USD">>, <<"BONOS_PUBLICOS", "NACIONALES_ARS">>,
       <<"BONOS_PUBLICOS", "PROVINCIALES">>, <<"BONOS_CORP", "TOP">>,
       <<"LETRAS", "TASA_FIJA">>, <<"LETRAS", "CER">>, <<"FCI", "PF">> >>

\* x in tpl
InTuple(x, tpl) == \E j \in 1..Len(tpl) : tpl[j] = x

\* the loop returns True at the first tuple that holds both arguments; when
\* no tuple does, the function falls off its end and returns None
ValidateListParametersOf(type, subtype) ==
    IF \E i \in 1..Len(AllowedCombinations) :
          InTuple(type, AllowedCombinations[i]) /\ InTuple(subtype, AllowedCombinations[i])
    THEN [t |-> "bool", b |-> TRUE]
    ELSE [t |-> "NoneType", b |-> FALSE]

\* the values of InstrumentType and of InstrumentSubType, and one other str
TypeStrings ==
    {"ACCIONES", "BONOS_PUBLICOS", "CEDEARS", "BONOS_CORP", "FCI", "LETRAS", "CAUCION"}
SubTypeStrings ==
    {"NACIONALES_ARS", "CER", "CRYPTO", "ETF", "TASA_FIJA", "GENERAL", "LIDERES", "NUEVOS",
     "", "OTROS", "PF", "PROVINCIALES", "TOP", "NACIONALES_USD", "BONOSC"}
ListStrings == TypeStrings \cup SubTypeStrings \cup {"other"}

ValidateListParameters ==
    /\ pc = "idle"
    /\ \E type \in ListStrings, subtype \in ListStrings :
        op' = [name |-> "_validate_list_parameters",
               args |-> [type |-> type, subtype |-> subtype],
               outcome |-> "returned", err |-> NoErr,
               value |-> ValidateListParametersOf(type, subtype)]
    /\ UNCHANGED <<pc, topt, connected, access_token, account_number, headers, orders,
                   messages, sent, api, frame, hist, nops>>

\* ------------------------------------- RestClient.api_request, called directly
\* calls of api_request made on the facade's client
MaxCalls == 2

Methods == {"get", "post", "delete", "put"}

Paths == { Endpoint("my_data"), Endpoint("portfolio") }

ClientApiRequest ==
    /\ pc = "idle"
    /\ nops < MaxCalls
    /\ \E path \in Paths, method \in Methods, retry \in BOOLEAN,
          r1, r2 \in ResponsesAny(DataBodies) :
        LET r == ApiRequest(path, retry, method, "", "{}", "", <<r1, r2>>)
        IN
        /\ messages' = messages \o r.logged
        /\ sent' = r.sent
        /\ api' = ApiRecord(r)
        /\ frame' = [t |-> "api", first |-> r1, messages0 |-> messages]
        /\ op' = [name |-> "api_request",
                  args |-> [path |-> path, retry |-> retry, method |-> method],
                  outcome |-> IF r.raised THEN "raised" ELSE "returned",
                  err |-> r.err, value |-> r.value]
        /\ nops' = nops + 1
    /\ UNCHANGED <<pc, topt, connected, access_token, account_number, headers, orders, hist>>

NextClient == ClientApiRequest

SpecClient == InitOrders /\ [][NextClient]_vars

\* the helpers of a constructed facade, called in any order
NextHelpers ==
    \/ LongTicker
    \/ ValidateListParameters

SpecHelpers == InitOrders /\ [][NextHelpers]_vars

\* --------------------------------------------------- business operations
\* business operations invoked on the constructed facade
MaxBusinessOps == 1

CanOperate == pc = "idle" /\ nops < MaxBusinessOps

\* the operation name(args) is invoked and runs up to its first outcome
Starts(name, args, outcome, err) ==
    /\ nops' = nops + 1
    /\ op' = [name |-> name, args |-> args, outcome |-> outcome, err |-> err,
              value |-> NoBody]

\* the first api_request call r of an operation: the request log starts anew
CalledFirst(r) ==
    /\ messages' = messages \o r.logged
    /\ sent' = r.sent
    /\ api' = ApiRecord(r)

\* ------------------------------------------------------ Cocos.withdraw_funds
\* GET transfers/accounts: the registered bank accounts
BankAccount(cbu_cvu) == [cbu_cvu |-> cbu_cvu]

BankBodies ==
    { [t |-> "accounts", list |-> <<>>],
      [t |-> "accounts", list |-> <<BankAccount("cbu2")>>],
      [t |-> "accounts", list |-> <<BankAccount("cbu2"), BankAccount("cbu1")>>] }

CbuCvuExistsAlways(accounts_list, cbu_cvu_to_check) == TRUE

\* _check_cbu_cvu_exists line 1293: any(item["cbu_cvu"] == cbu_cvu_to_check ...)
CbuCvuExists(accounts_list, cbu_cvu_to_check) ==
    \E i \in 1..Len(accounts_list) : accounts_list[i].cbu_cvu = cbu_cvu_to_check

\* lines 411-418: json.dumps of the withdrawal
WithdrawPayload(currency, amount, cbu_cvu) ==
    "{order: 1, amount: " \o amount \o ", currency: " \o currency.value
        \o ", cbu_cvu: " \o cbu_cvu \o "}"

\* lines 397-408: the bank accounts are fetched and searched
WithdrawFunds ==
    /\ CanOperate
    /\ \E currency \in {ByName(Currency, "PESOS"), ByName(Currency, "USD")},
          cbu_cvu \in {"cbu1"} :
       \E r1, r2 \in Responses(BankBodies) :
        LET args == [currency |-> currency, amount |-> "1", cbu_cvu |-> cbu_cvu]
            r    == ApiRequest(Endpoint("bank_accounts"), TRUE, "get", "", "{}", "",
                               <<r1, r2>>)
        IN
        /\ CalledFirst(r)
        /\ IF r.raised
           THEN /\ Starts("withdraw_funds", args, "raised", r.err)
                /\ frame' = [t |-> "withdraw", found |-> "unset"]
                /\ pc' = "idle"
           ELSE IF ~CbuCvuExists(r.value.list, cbu_cvu)
           THEN /\ Starts("withdraw_funds", args, "raised",
                          Err("ApiException", "Invalid account, not found. Add account first."))
                /\ frame' = [t |-> "withdraw", found |-> "false"]
                /\ pc' = "idle"
           ELSE /\ Starts("withdraw_funds", args, "running", NoErr)
                /\ frame' = [t |-> "withdraw", found |-> "true"]
                /\ pc' = "withdraw_post"
    /\ UNCHANGED <<topt, connected, access_token, account_number, headers, orders, hist>>

\* lines 411-422: the withdrawal is submitted
WithdrawPost ==
    /\ pc = "withdraw_post"
    /\ \E r1, r2 \in ResponsesAny(DataBodies) :
        LET a == op.args
            r == ApiRequest(Endpoint("withdraw"), TRUE, "post", "", "{}",
                            WithdrawPayload(a.currency, a.amount, a.cbu_cvu), <<r1, r2>>)
        IN
        /\ Called(r)
        /\ IF r.raised THEN OpRaises(r.err) ELSE OpReturns(r.value)
    /\ UNCHANGED <<topt, connected, access_token, account_number, headers, orders, frame,
                   hist, nops>>

\* -------------------------------------------------------- Cocos.cancel_order
\* urls.endpoints["order"].format(order_number)
OrderPath(order_number) == "api/v2/orders/" \o order_number

\* GET orders/{}: the status of one order
OrderStatusBodies ==
    [t : {"status"}, instrument : {"absent", "inst1"}, ticker : {"AAPL"}]

\* lines 589-591: json.dumps of the instrument and ticker of the order
CancelPayload(order) ==
    "{instrument: " \o order.instrument \o ", ticker: " \o order.ticker \o "}"

\* lines 582-591: order_status(order_number), then the payload is built
CancelOrder ==
    /\ CanOperate
    /\ \E order_number \in {"ord1"} : \E r1, r2 \in Responses(OrderStatusBodies) :
        LET args == [order_number |-> order_number]
            r    == ApiRequest(OrderPath(order_number), TRUE, "get", "", "{}", "", <<r1, r2>>)
        IN
        /\ CalledFirst(r)
        /\ IF r.raised
           THEN /\ Starts("cancel_order", args, "raised", r.err)
                /\ frame' = [t |-> "cancel", payload |-> Unbound]
                /\ pc' = "idle"
           ELSE IF r.value.instrument = "absent"
           THEN /\ Starts("cancel_order", args, "raised", Err("KeyError", "instrument"))
                /\ frame' = [t |-> "cancel", payload |-> Unbound]
                /\ pc' = "idle"
           ELSE /\ Starts("cancel_order", args, "running", NoErr)
                /\ frame' = [t |-> "cancel", payload |-> CancelPayload(r.value)]
                /\ pc' = "cancel_delete"
    /\ UNCHANGED <<topt, connected, access_token, account_number, headers, orders, hist>>

\* lines 593-594 and RestClient.cancel_order: api_request(path, method="delete",
\* data=payload); params and json_data keep their defaults
CancelDelete ==
    /\ pc = "cancel_delete"
    /\ \E r1, r2 \in ResponsesAny(DataBodies) :
        LET r == ApiRequest(OrderPath(op.args.order_number), TRUE, "delete", "", "{}",
                            frame.payload, <<r1, r2>>)
        IN
        /\ Called(r)
        /\ IF r.raised THEN OpRaises(r.err) ELSE OpReturns(r.value)
    /\ UNCHANGED <<topt, connected, access_token, account_number, headers, orders, frame,
                   hist, nops>>

\* ----------------------------------------- Cocos.get_instrument_list_snapshot
InstrumentType ==
    { Member("InstrumentType", "ACCIONES", "ACCIONES"),
      Member("InstrumentType", "BONOS", "BONOS_PUBLICOS"),
      Member("InstrumentType", "CEDEARS", "CEDEARS"),
      Member("InstrumentType", "CORP", "BONOS_CORP"),
      Member("InstrumentType", "FCI", "FCI"),
      Member("InstrumentType", "LETRAS", "LETRAS"),
      Member("InstrumentType", "REPO", "CAUCION") }

InstrumentSubType ==
    { Member("InstrumentSubType", "ARS", "NACIONALES_ARS"),
      Member("InstrumentSubType", "CER", "CER"),
      Member("InstrumentSubType", "CRYPTO", "CRYPTO"),
      Member("InstrumentSubType", "ETF", "ETF"),
      Member("InstrumentSubType", "FIXED", "TASA_FIJA"),
      Member("InstrumentSubType", "GENERAL", "GENERAL"),
      Member("InstrumentSubType", "LIDERES", "LIDERES"),
      Member("InstrumentSubType", "NEW", "NUEVOS"),
      Member("InstrumentSubType", "NONE", ""),
      Member("InstrumentSubType", "OTROS", "OTROS"),
      Member("InstrumentSubType", "PF", "PF"),
      Member("InstrumentSubType", "PROV", "PROVINCIALES"),
      Member("InstrumentSubType", "TOP", "TOP"),
      Member("InstrumentSubType", "USD", "NACIONALES_USD"),
      Member("InstrumentSubType", "BONOS_CORP", "BONOSC") }

\* x.value: an Enum member has the attribute, a str has not (AttributeError)
HasValueAttribute(x) == x.class # "str"

\* urls.endpoints["tickers_list"].format(...)
TickersListPath(instrument_type, instrument_subtype, settlement, currency, segment) ==
    "api/v1/markets/lists/tickers/?instrument_type=" \o instrument_type
        \o "&instrument_subtype=" \o instrument_subtype
        \o "&settlement_days=" \o settlement
        \o "&currency=" \o currency \o "&segment=" \o segment

\* RestClient.get_tickers_list(instrument_type, instrumet_subtype, settlement,
\* currency, segment): the path is formatted from the .value of each argument
GetTickersList(instrument_type, instrumet_subtype, settlement, currency, segment, resps) ==
    IF \E x \in {instrument_type, instrumet_subtype, settlement, currency, segment} :
          ~HasValueAttribute(x)
    THEN Raised(Err("AttributeError", "'str' object has no attribute 'value'"),
                <<>>, <<>>, <<>>)
    ELSE ApiRequest(TickersListPath(instrument_type.value, instrumet_subtype.value,
                                    settlement.value, currency.value, segment.value),
                    TRUE, "get", "", "{}", "", resps)

\* lines 703-726: the combination is validated, then get_tickers_list is
\* called with the .value of each argument
GetInstrumentListSnapshot ==
    /\ CanOperate
    /\ \E instrument_type \in InstrumentType, instrument_subtype \in InstrumentSubType,
          settlement \in {ByName(Settlement, "T1")}, currency \in {ByName(Currency, "PESOS")},
          segment \in {ByName(Segment, "DEFAULT")} :
       \E r1, r2 \in ResponsesAny(DataBodies) :
        LET args == [instrument_type |-> instrument_type,
                     instrument_subtype |-> instrument_subtype,
                     settlement |-> settlement, currency |-> currency, segment |-> segment]
            valid == ValidateListParametersOf(instrument_type.value, instrument_subtype.value)
            r == GetTickersList(Str(instrument_type.value), Str(instrument_subtype.value),
                                Str(settlement.value), Str(currency.value),
                                Str(segment.value), <<r1, r2>>)
        IN
        /\ frame' = [t |-> "list", valid |-> valid]
        /\ IF ~valid.b
           THEN /\ Starts("get_instrument_list_snapshot", args, "raised",
                          Err("ValueError",
                              "Invalid combination for instrument type and subtype."))
                /\ sent' = <<>>
                /\ UNCHANGED <<messages, api>>
           ELSE /\ CalledFirst(r)
                /\ nops' = nops + 1
                /\ op' = [name |-> "get_instrument_list_snapshot", args |-> args,
                          outcome |-> IF r.raised THEN "raised" ELSE "returned",
                          err |-> r.err, value |-> r.value]
    /\ UNCHANGED <<pc, topt, connected, access_token, account_number, headers, orders, hist>>

\* ------------------------------------------------ Cocos.portfolio_performance
PerformanceTimeframe ==
    { Member("PerformanceTimeframe", "DAILY", "daily"),
      Member("PerformanceTimeframe", "HISTORICAL", "historical"),
      Member("PerformanceTimeframe", "RANGE", "range") }

\* urls.endpoints["performance_period"].format(date_from, date_to)
PerformancePeriodPath(date_from, date_to) ==
    "api/v1/wallet/performance/global?date_from=" \o date_from \o "&date_to=" \o date_to

\* lines 335-338
PerformancePath(timeframe, date_from, date_to) ==
    IF timeframe # ByName(PerformanceTimeframe, "RANGE")
    THEN Endpoint("daily_performance")
    ELSE PerformancePeriodPath(date_from, date_to)

PortfolioPerformance ==
    /\ CanOperate
    /\ \E timeframe \in PerformanceTimeframe, date_from \in {"", "2024-01-01"},
          date_to \in {"", "2024-01-31"} :
       \E r1, r2 \in ResponsesAny(DataBodies) :
        LET args == [timeframe |-> timeframe, date_from |-> date_from, date_to |-> date_to]
            r    == ApiRequest(PerformancePath(timeframe, date_from, date_to), TRUE, "get",
                               "", "{}", "", <<r1, r2>>)
        IN
        /\ CalledFirst(r)
        /\ nops' = nops + 1
        /\ op' = [name |-> "portfolio_performance", args |-> args,
                  outcome |-> IF r.raised THEN "raised" ELSE "returned",
                  err |-> r.err, value |-> r.value]
    /\ UNCHANGED <<pc, topt, connected, access_token, account_number, headers, orders,
                   frame, hist>>

NextOperations ==
    \/ WithdrawFunds
    \/ WithdrawPost
    \/ CancelOrder
    \/ CancelDelete
    \/ GetInstrumentListSnapshot
    \/ PortfolioPerformance

SpecOperations == InitOrders /\ [][NextOperations]_vars


NextOrders ==
    \/ SubmitBuyOrder
    \/ BuyAsk
    \/ BuyPriceFactor
    \/ BuyFunds
    \/ BuyPost
    \/ SubmitSellOrder
    \/ SellStocks
    \/ SellPost

SpecOrders == InitOrders /\ [][NextOrders]_vars

Next ==
    \/ AuthToken
    \/ TwoFactors
    \/ ChallengeRequest
    \/ InputCode
    \/ Verify
    \/ AuthPhase2
    \/ Logout
    \/ Query

Spec == Init /\ [][Next]_vars

\* ------------------------------------------------------------------ claims
AuthSteps == {"token", "2factors", "challenge", "input", "verify", "my_data"}

SentTo(path) == \E i \in 1..Len(sent) : sent[i].path = path

\* C1: an api_request call whose first response is a 401 dispatches exactly
\* one retry; a 401 on the retry makes the call raise "Authentication
\* Fails."; no call dispatches more than two requests.
C1_OneRetryOn401 ==
    /\ api.nreq <= 2
    /\ (Len(api.seen) >= 1 /\ api.seen[1] = 401) =>
          /\ api.nreq = 2
          /\ (Len(api.seen) = 2 /\ api.seen[2] = 401) =>
                (api.raised /\ api.err.msg = "Authentication Fails.")

\* C2: connected is false in every state of the authentication sequence and
\* after a failure of it; it is true only once the verify endpoint has
\* returned an access token and the profile has been fetched.
C2_ConnectedOnlyAfterFullAuth ==
    /\ (pc \in AuthSteps \cup {"failed"}) => ~connected
    /\ connected =>
          /\ hist.factor.t = "factors"
          /\ hist.factor.requireChallenge = "true" =>
                /\ hist.verify.t = "verify"
                /\ hist.verify.access_token # "absent"
                /\ hist.profile.t = "profile"

C2_Witness ==
    /\ connected
    /\ hist.factor.requireChallenge = "true"
    /\ hist.verify.access_token = "tokB"
    /\ hist.profile.t = "profile"

\* C3: once the second-factor status has reported that no challenge is
\* required, no challenge is issued, no code is read, and the sequence goes
\* on to the profile fetch: it can only fail at the profile request.
C3_PassThrough ==
    (hist.factor.t = "factors" /\ hist.factor.requireChallenge # "true") =>
        /\ ~SentTo(Endpoint("challenge"))
        /\ ~SentTo(Endpoint("verify"))
        /\ pc \in {"my_data", "idle", "failed"}
        /\ pc = "failed" => SentTo(Endpoint("my_data"))

\* C4: a token response that signals failure or carries no access_token makes
\* the constructor raise; no second-factor-status request follows and
\* connected stays false.
C4_LoginRejected ==
    (hist.token.t = "token"
       /\ (hist.token.success = "false" \/ hist.token.access_token = "absent")) =>
        /\ pc = "failed"
        /\ op.outcome = "raised"
        /\ ~SentTo(Endpoint("2factors"))
        /\ ~connected

C4_Witness ==
    /\ hist.token.t = "token"
    /\ hist.token.success = "false"
    /\ hist.token.access_token = "tokA"
    /\ pc = "failed"

\* C5: a logout() that returned has dispatched one POST to the logout
\* endpoint and left connected false; once a logout() has returned,
\* connected is false in every later state, whatever is invoked afterwards.
C5_LoggedOutStaysDisconnected ==
    /\ (op.name = "logout" /\ op.outcome = "returned") =>
          /\ Len(sent) = 1
          /\ sent[1].path = Endpoint("logout")
          /\ sent[1].method = "post"
          /\ ~connected
    /\ hist.loggedOut => ~connected

C5_Witness ==
    /\ hist.loggedOut
    /\ op.name # "logout"
    /\ op.outcome = "returned"
    /\ ~connected

\* C6: once logout() has returned, every public operation invoked on the
\* facade is rejected and dispatches no HTTP request.
C6_NoOperationAfterLogout ==
    [][(hist.loggedOut /\ nops' > nops) => (op'.outcome = "raised" /\ sent' = <<>>)]_vars

\* the payload of the buy order in progress (or the last one)
IsBuy == op.name = "submit_buy_order"
Resolvable(long_ticker) ==
    /\ Len(Split(long_ticker)) = 5
    /\ GetCocosSettlement(Split(long_ticker)[2]) # None
    /\ SegmentKnown(Split(long_ticker)[3])

\* C7: a MARKET buy order (on a well-formed long ticker) that carries a
\* price, or both quantity and amount, is rejected with ApiException before
\* any request is dispatched.
C7_MarketShapeRejected ==
    (IsBuy /\ Resolvable(op.args["long_ticker"]) /\ op.args["type"].value = "MARKET"
       /\ (Has(op.args, "price") \/ (Has(op.args, "quantity") /\ Has(op.args, "amount")))) =>
        /\ op.outcome = "raised"
        /\ op.err.type = "ApiException"
        /\ frame.shape = "raised"
        /\ sent = <<>>

\* C8: for a LIMIT buy order the shape check raises, before any request,
\* exactly when the payload has no price or has neither quantity nor amount.
C8_LimitShape ==
    (IsBuy /\ op.args["type"].value = "LIMIT" /\ frame.shape # "unreached") =>
        /\ frame.shape = "raised" <=>
              (~Has(op.args, "price")
                 \/ (~Has(op.args, "quantity") /\ ~Has(op.args, "amount")))
        /\ frame.shape = "raised" => (op.outcome = "raised" /\ sent = <<>>)

\* C9: when the funds check (buy) or the stock check (sell) returned false,
\* the operation raises ApiException, no POST to the orders endpoint is
\* dispatched and the orders sequence is as it was when the operation began.
C9_ChecksBlock ==
    (frame.t \in {"buy", "sell"} /\ frame.valid = "false") =>
        /\ pc = "idle"
        /\ op.outcome = "raised"
        /\ op.err.type = "ApiException"
        /\ \A i \in 1..Len(sent) :
              ~(sent[i].path = Endpoint("orders") /\ sent[i].method = "post")
        /\ orders = frame.orders0

C9_Witness ==
    /\ frame.t = "buy"
    /\ frame.valid = "false"
    /\ frame.available >= 0
    /\ SentTo(Endpoint("buying_power"))
    /\ op.outcome = "raised"

\* the order total of the claim, as the fraction num / den: the explicit
\* amount when the payload carries one, else quantity * effective price /
\* price factor, the effective price being the payload's price or the ask
ClaimTotal ==
    IF Has(op.args, "amount")
    THEN [num |-> PyFloat(op.args["amount"]), den |-> 1]
    ELSE [num |-> PyFloat(op.args["quantity"])
                    * (IF Has(op.args, "price") THEN PyFloat(op.args["price"])
                       ELSE frame.ask.value),
          den |-> frame.price_factor.value]

\* C10: when the funds comparison of _validate_buy_order is made, its result
\* is true iff the funds available at the order's tenor and currency are >=
\* the order total of the claim.
C10_FundsAgainstTotal ==
    (IsBuy /\ frame.t = "buy" /\ frame.available >= 0 /\ frame.valid # "unset") =>
        (frame.valid = "true" <=> frame.available * ClaimTotal.den >= ClaimTotal.num)

\* the stock the selling-power response reports at the tenor the settlement
\* code of the sell order stands for, zero when the response has no such tenor
ClaimTenor(code) ==
    IF code = <<"0001">> THEN "CI" ELSE IF code = <<"0002">> THEN "24hs"
    ELSE IF code = <<"0003">> THEN "48hs" ELSE "unresolvable"
ClaimStock(body, tenor) == IF tenor \in body.tenors THEN body.stock[tenor] ELSE 0

\* C11: once _validate_sell_power has the selling-power response, it returns
\* false when the settlement code of the long ticker is unresolvable, and
\* otherwise true iff the stock at the ticker's tenor (zero when absent) is
\* >= the requested quantity.
C11_SellPower ==
    (frame.t = "sell" /\ frame.valid # "unset" /\ api.value.t = "stock") =>
        LET tenor == ClaimTenor(Split(frame.payload.long_ticker)[2])
        IN  frame.valid = "true" <=>
              /\ tenor # "unresolvable"
              /\ ClaimStock(api.value, tenor) >= PyFloat(frame.payload.quantity)

\* the boundary: the stock equals the requested quantity and the check passes
C11_Witness ==
    /\ frame.t = "sell"
    /\ api.value.t = "stock"
    /\ "24hs" \in api.value.tenors
    /\ api.value.stock["24hs"] = PyFloat(frame.payload.quantity)
    /\ frame.valid = "true"
    /\ pc = "sell_post"

\* C12: a buy order whose five-field long ticker carries a settlement code or
\* a segment code that resolves to no enum member makes _validate_buy_order
\* return false without raising, before the shape check and before any
\* request: the operation ends with the "not enough money" ApiException.
C12_UnresolvedReturnsFalse ==
    (IsBuy /\ Len(Split(op.args["long_ticker"])) = 5
       /\ ~Resolvable(op.args["long_ticker"])) =>
        /\ frame.valid = "false"
        /\ frame.shape = "unreached"
        /\ sent = <<>>
        /\ op.err = Err("ApiException", "Not enough money to purchase")

\* C13: long_ticker returns the bare uppercased ticker for segment FCI, and
\* otherwise UPPER(ticker)-CODE-segment.value-CT-currency.value, CODE being
\* 0001 for T0, 0002 for T1, 0003 for T2 and empty for any other settlement.
C13_LongTickerComposition ==
    (op.name = "long_ticker") =>
        LET a    == op.args
            code == CASE a.settlement.name = "T0" -> <<"0001">>
                      [] a.settlement.name = "T1" -> <<"0002">>
                      [] a.settlement.name = "T2" -> <<"0003">>
                      [] OTHER -> <<>>
            up   == [i \in 1..Len(a.ticker) |->
                       CASE a.ticker[i] = "aapl" -> "AAPL" [] a.ticker[i] = "brk" -> "BRK"
                         [] a.ticker[i] = "b" -> "B" [] OTHER -> a.ticker[i]]
        IN  /\ a.segment.name = "FCI" => op.value.s = up
            /\ a.segment.name # "FCI" =>
                 op.value.s = up \o <<"-">> \o code \o <<"-", a.segment.value, "-", "CT", "-">>
                                 \o (IF a.currency.value = "" THEN <<>>
                                     ELSE <<a.currency.value>>)

\* long_ticker("aapl", T1, PESOS, DEFAULT) = "AAPL-0002-C-CT-ARS"
C13_Witness ==
    /\ op.name = "long_ticker"
    /\ op.args.ticker = <<"aapl">>
    /\ op.args.settlement.name = "T1"
    /\ op.args.currency.name = "PESOS"
    /\ op.args.segment.name = "DEFAULT"
    /\ op.value.s = <<"AAPL", "-", "0002", "-", "C", "-", "CT", "-", "ARS">>

\* the round trip of one long_ticker call: five fields, and the settlement
\* and segment codes map back to the arguments
RoundTrips ==
    LET fields == Split(op.value.s)
    IN  /\ Len(fields) = 5
        /\ GetCocosSettlement(fields[2]) = op.args.settlement
        /\ SegmentKnown(fields[3])
        /\ GetCocosSegment(fields[3]) = op.args.segment

RoundTripCase ==
    /\ op.name = "long_ticker"
    /\ op.args.settlement.name \in {"T0", "T1", "T2"}
    /\ op.args.segment.name # "FCI"

\* C14 as stated: for every ticker, every tenor of T0, T1, T2, every currency
\* and every segment but FCI, the long ticker splits into exactly five fields
\* whose settlement and segment codes map back to the arguments.
C14_RoundTripEveryTicker == RoundTripCase => RoundTrips

\* C14, amended: the round trip holds for every ticker that holds no "-".
C14_RoundTripDashFree ==
    (RoundTripCase /\ \A i \in 1..Len(op.args.ticker) : op.args.ticker[i] # Dash) =>
        RoundTrips

C14_Witness ==
    /\ RoundTripCase
    /\ op.args.ticker = <<"GFGC500.JU">>
    /\ op.args.settlement.name = "T2"
    /\ op.args.segment.name = "OPTIONS"
    /\ op.args.currency.name = "NONE"
    /\ Len(Split(op.value.s)) = 5

\* C15: _validate_list_parameters(type, subtype) returns True iff the ordered
\* pair (type, subtype) is one of the thirteen allowed combinations.
C15_OrderedPairAllowed ==
    (op.name = "_validate_list_parameters") =>
        (op.value = [t |-> "bool", b |-> TRUE]
           <=> \E i \in 1..Len(AllowedCombinations) :
                  AllowedCombinations[i] = <<op.args.type, op.args.subtype>>)

\* C16: a call of api_request whose request is answered with status 500
\* raises an error that carries the parsed body of that response, after one
\* request and without returning anything.
C16_Error500CarriesBody ==
    (op.name = "api_request" /\ api.seen # <<>> /\ api.seen[1] = 500) =>
        /\ op.outcome = "raised"
        /\ op.err.body = frame.first.body
        /\ api.nreq = 1
        /\ op.value = NoBody

\* C17: api_request called with a method outside get, post, delete raises the
\* unsupported-method error; no request is dispatched, no response is seen
\* (so nothing is retried) and the audit log is as it was before the call.
C17_UnsupportedMethod ==
    (op.name = "api_request" /\ op.args.method \notin {"get", "post", "delete"}) =>
        /\ op.outcome = "raised"
        /\ op.err = Err("ApiException", "Method not suported")
        /\ sent = <<>>
        /\ api.seen = <<>>
        /\ api.nreq = 0
        /\ messages = frame.messages0

\* an unsupported method after an earlier call that was logged
C17_Witness ==
    /\ op.name = "api_request"
    /\ op.args.method = "put"
    /\ op.outcome = "raised"
    /\ \E i \in 1..Len(messages) : messages[i].message \in DataBodies

\* C18: a call of api_request that returns normally returns the body of its
\* request's response, and the status of that response was neither 401 nor
\* 500; every other call raises.
C18_NoSilentPartialSuccess ==
    (op.name = "api_request") =>
        /\ op.outcome \in {"raised", "returned"}
        /\ op.outcome = "returned" =>
              /\ frame.first.status \notin {401, 500}
              /\ op.value = frame.first.body
              /\ \A i \in 1..Len(api.seen) : api.seen[i] \notin {401, 500}

\* a 401 answer to a call that may retry: the call raises
C18_Witness ==
    /\ op.name = "api_request"
    /\ op.args.retry
    /\ api.seen = <<401>>
    /\ op.outcome = "raised"

\* C19: every step leaves the orders sequence as it was or appends one
\* identifier to it, and it appends only when the step is an order submission
\* whose response reports success, the identifier being the one that response
\* carries.
C19_OrdersAppendOnly ==
    [][ /\ Len(orders') >= Len(orders)
        /\ SubSeq(orders', 1, Len(orders)) = orders
        /\ orders' # orders =>
              /\ op'.name \in {"submit_buy_order", "submit_sell_order"}
              /\ ~api'.raised
              /\ api'.value.t = "order"
              /\ api'.value.success = "true"
              /\ orders' = Append(orders, api'.value.Orden) ]_vars

\* C20: no step removes a header name from the session: a name that is
\* installed before a step is installed after it (its value may change, and
\* may become the empty str).
C20_HeadersCumulative ==
    [][ \A k \in HeaderKeys : headers[k] # Unset => headers'[k] # Unset ]_vars

\* after the whole authentication sequence and a logout the three names are
\* installed, the api key overwritten with the empty str
C20_Witness ==
    /\ hist.loggedOut
    /\ \A k \in HeaderKeys : headers[k] # Unset
    /\ headers["apikey"] = ""
    /\ headers["x-account-id"] = account_number

\* the operation in progress (or the last one) dispatched a POST to the
\* withdrawal endpoint
WithdrawalSent ==
    \E i \in 1..Len(sent) :
        sent[i].path = Endpoint("withdraw") /\ sent[i].method = "post"

\* C21: withdraw_funds dispatches the GET of the bank accounts first; when it
\* was answered and no account has the given cbu_cvu the operation raises
\* ApiException and no withdrawal POST is dispatched; a withdrawal POST is
\* dispatched only after the account was found.
C21_WithdrawNeedsAccount ==
    (op.name = "withdraw_funds") =>
        /\ sent # <<>> =>
              (sent[1].path = Endpoint("bank_accounts") /\ sent[1].method = "get")
        /\ frame.found = "false" =>
              /\ op.outcome = "raised"
              /\ op.err.type = "ApiException"
              /\ ~WithdrawalSent
        /\ WithdrawalSent =>
              /\ frame.found = "true"
              /\ \E i \in 1..Len(messages) :
                    /\ messages[i].url = Endpoint("bank_accounts")
                    /\ \E j \in 1..Len(messages[i].message.list) :
                          messages[i].message.list[j].cbu_cvu = op.args.cbu_cvu

\* the server lists accounts, but not the given one: the operation raised
C21_Witness ==
    /\ op.name = "withdraw_funds"
    /\ api.value.t = "accounts"
    /\ api.value.list # <<>>
    /\ frame.found = "false"
    /\ op.outcome = "raised"
    /\ Len(sent) = 1

\* C22: cancel_order retrieves the order's status first; every DELETE it
\* dispatches comes after that GET, goes to the order's endpoint and carries
\* in its body the instrument and ticker of the retrieved order; there is at
\* most one DELETE.
C22_CancelCarriesOrder ==
    (op.name = "cancel_order") =>
        /\ sent # <<>> =>
              (sent[1].method = "get" /\ sent[1].path = OrderPath(op.args.order_number))
        /\ \A i \in 1..Len(sent) : sent[i].method = "delete" =>
              /\ i = 2
              /\ sent[i].path = OrderPath(op.args.order_number)
              /\ (sent[i].data = frame.payload \/ sent[i].json = frame.payload)

\* C23: get_instrument_list_snapshot raises ValueError without any request
\* when (instrument_type, instrument_subtype) is not an allowed combination,
\* and for an allowed one dispatches one GET to the tickers-list endpoint of
\* the five values, whose payload it returns when the request succeeds.
C23_ListSnapshot ==
    (op.name = "get_instrument_list_snapshot") =>
        LET a == op.args
            allowed == \E i \in 1..Len(AllowedCombinations) :
                          AllowedCombinations[i]
                              = <<a.instrument_type.value, a.instrument_subtype.value>>
        IN  /\ ~allowed => (op.outcome = "raised" /\ op.err.type = "ValueError"
                              /\ sent = <<>>)
            /\ allowed =>
                  /\ Len(sent) = 1
                  /\ sent[1].method = "get"
                  /\ sent[1].path = TickersListPath(a.instrument_type.value,
                                        a.instrument_subtype.value, a.settlement.value,
                                        a.currency.value, a.segment.value)
                  /\ op.outcome = "returned" => op.value = api.value

\* C24: portfolio_performance requests the daily-performance endpoint for
\* DAILY, the historic-performance endpoint for HISTORICAL and the period
\* endpoint with date_from and date_to for RANGE.
C24_PerformanceDispatch ==
    (op.name = "portfolio_performance" /\ sent # <<>>) =>
        sent[1].path =
            CASE op.args.timeframe.name = "DAILY" -> Endpoint("daily_performance")
              [] op.args.timeframe.name = "HISTORICAL" -> Endpoint("historic_performance")
              [] op.args.timeframe.name = "RANGE" ->
                    PerformancePeriodPath(op.args.date_from, op.args.date_to)

\* C25: whenever connected is true, the authorization header is "Bearer "
\* followed by the access token the verification endpoint returned (not the
\* token endpoint's), and the x-account-id header is account_number, the
\* first element of the id_accounts list of the fetched profile (as a str).
C25_ConnectedHeaders ==
    connected =>
        /\ headers["authorization"] = "Bearer " \o hist.verify.access_token
        /\ headers["authorization"] # "Bearer " \o hist.token.access_token
        /\ access_token = hist.verify.access_token
        /\ headers["x-account-id"] = account_number
        /\ account_number = PyStr(hist.profile.id_accounts[1])

\* a profile with two accounts: the first one is installed
C25_Witness ==
    /\ connected
    /\ hist.profile.id_accounts = <<102, 101>>
    /\ headers["x-account-id"] = "102"
    /\ headers["authorization"] = "Bearer tokB"

\* C26: the verification code is the TOTP generator's exactly when a TOTP
\* secret was configured and the challenge id is neither "mail" nor "sms";
\* otherwise the sequence waits for the typed code: while it waits no verify
\* request has been dispatched and nothing later has happened, and a verify
\* request, a fetched profile or connected = true imply that a code was
\* supplied.
C26_CodeBeforeVerify ==
    LET automatic == topt /\ frame.challenge_id \notin {"mail", "sms"}
    IN  /\ frame.code # Unbound => (frame.code = "totp.now" <=> automatic)
        /\ pc = "input" =>
              /\ ~automatic
              /\ frame.code = Unbound
              /\ ~SentTo(Endpoint("verify"))
              /\ hist.verify = NoBody
              /\ hist.profile = NoBody
              /\ ~connected
        /\ (hist.verify # NoBody \/ hist.profile # NoBody \/ connected
              \/ pc \in {"my_data", "idle"}) =>
              frame.code # Unbound

\* a TOTP secret is configured, but the challenge is an sms one: the
\* sequence waits for the typed code
C26_Witness ==
    /\ pc = "input"
    /\ topt
    /\ frame.challenge_id = "sms"
    /\ frame.code = Unbound
    /\ SentTo(Endpoint("challenge"))

\* C27: every step keeps the entries of the audit log and appends one entry
\* per response with status 200 received in the step, holding the path, a
\* timestamp and the response; a response with another status appends
\* nothing, and so does the step that reads the typed code, which makes no
\* request.
C27_AuditLogAppendOnly ==
    [][ LET n == Len(messages)
            ok == {i \in 1..Len(api'.seen) : api'.seen[i] = 200}
        IN  /\ Len(messages') >= n
            /\ SubSeq(messages', 1, n) = messages
            /\ IF pc = "input"
               THEN messages' = messages
               ELSE /\ Len(messages') = n + Cardinality(ok)
                    /\ Cardinality(ok) = 1 =>
                          messages'[n + 1] = [url |-> sent'[Len(sent')].path,
                                              timestamp |-> "now",
                                              message |-> api'.value] ]_vars

\* a portfolio query answered with 201: returned, and not logged
C27_Witness ==
    /\ op.name = "my_portfolio"
    /\ op.outcome = "returned"
    /\ api.seen = <<201>>
    /\ messages # <<>>
    /\ \A i \in 1..Len(messages) : messages[i].url # Endpoint("portfolio")

\* the requests of the construction, in the order of the authentication
AuthOrder ==
    << Endpoint("token"), Endpoint("2factors"), Endpoint("challenge"), Endpoint("verify"),
       Endpoint("my_data") >>

\* C28: the requests dispatched by the constructor are a prefix of token,
\* second-factor status, challenge issue, challenge verify, profile; each was
\* dispatched after the previous one was answered with 200 and accepted; and
\* a business operation has dispatched a request only after the construction
\* completed with connected set.
C28_ConstructionOrder ==
    /\ op.name = "__init__" =>
          /\ Len(sent) <= Len(AuthOrder)
          /\ \A i \in 1..Len(sent) : sent[i].path = AuthOrder[i]
          /\ \A i \in 1..(Len(sent) - 1) :
                i <= Len(messages) /\ messages[i].url = AuthOrder[i]
          /\ Len(sent) >= 2 => hist.token.access_token \notin {"absent", Unset}
          /\ Len(sent) >= 3 => hist.factor.requireChallenge = "true"
          /\ Len(sent) >= 5 => hist.verify.access_token # "absent"
          /\ ~connected => \A i \in 1..Len(messages) :
                              \E j \in 1..Len(AuthOrder) : messages[i].url = AuthOrder[j]
    /\ op.name # "__init__" =>
          /\ hist.profile.t = "profile"
          /\ hist.profile.id_accounts # <<>>
          /\ hist.loggedOut \/ connected

\* the construction completed: five requests, connected
C28_Witness ==
    /\ op.name = "__init__"
    /\ op.outcome = "returned"
    /\ Len(sent) = Len(AuthOrder)
    /\ connected

\* C29: the step that looks the price factor up yields the price_factor of
\* the first snapshot entry whose long_ticker is the order's, and 1 when no
\* entry matches.
C29_PriceFactorDefault ==
    [][ (pc = "buy_price_factor" /\ ~api'.raised) =>
          LET list == api'.value.list
              lt   == frame.payload["long_ticker"]
              hits == {i \in 1..Len(list) : list[i].long_ticker = lt}
          IN  /\ frame'.price_factor.found
              /\ frame'.price_factor.value =
                    IF hits = {} THEN 1
                    ELSE list[CHOOSE i \in hits : \A j \in hits : i <= j].price_factor ]_vars

====
